---- MODULE Spec2Model ----
(***************************************************************************)
(* Model of the echo.lu kiosk page (app.vue): fetchEchoData turns the      *)
(* records of one API response into the sorted, image-filtered event list  *)
(* shown by the carousel.                                                  *)
(*                                                                         *)
(* Time.  A Date is its getTime() value: milliseconds since Epoch, the     *)
(* local midnight that starts Sunday 22 June 2025.  Local time has no DST  *)
(* change inside the modelled weeks.  An invalid Date is NaN.              *)
(*                                                                         *)
(* Strings the code takes apart or builds (dates, times, URLs, the         *)
(* dateString) are sequences of string tokens, "22/06/2025" being          *)
(* <<"22", "/", "06", "/", "2025">>; concatenation is \o and "" is <<>>.   *)
(* A JSON object is a record; a key the JSON lacks is absent from DOMAIN.  *)
(***************************************************************************)
EXTENDS Integers, Sequences, FiniteSets, TLC

VARIABLES
    pc,        \* where fetchEchoData stands: "start", "awaiting", "done", "rejected"
    query,     \* route.query
    clock,     \* the wall clock that new Date() reads
    requests,  \* number of fetch() calls issued
    response,  \* data.records of the response in flight
    now,       \* the value of new Date() in the record mapping (NaN before it runs)
    events,    \* events.value of computedAsync, [] initially
    params,    \* the URLSearchParams of the request (empty before it is built)
    currentIndex  \* currentIndex.value

vars == <<pc, query, clock, requests, response, now, events, params, currentIndex>>

----------------------------------------------------------------------------
(* Bounds of the model *)

MaxRecords == 3
MaxWindows == 3
MaxOpeningDays == 2

----------------------------------------------------------------------------
(* Dates *)

MsPerSecond == 1000
MsPerMinute == 60 * 1000
MsPerHour == 60 * 60 * 1000
MsPerDay == 24 * 60 * 60 * 1000

NaN == 0 - 1
Null == 0 - 2

\* The instant of a local wall-clock time on day d after Epoch.
At(d, h, mi, s, ms) ==
    d * MsPerDay + h * MsPerHour + mi * MsPerMinute + s * MsPerSecond + ms

\* An ISO-8601 timestamp of the API, as its calendar fields.
Iso(d, h, mi, s, ms) == [d |-> d, h |-> h, mi |-> mi, s |-> s, ms |-> ms]

\* new Date(value): the instant of an ISO string, Invalid Date for undefined.
NewDate(obj, key) ==
    IF key \in DOMAIN obj
    THEN LET v == obj[key] IN At(v.d, v.h, v.mi, v.s, v.ms)
    ELSE NaN

\* date-fns parseISO: Invalid Date when the argument is no string.
parseISO(obj, key) == NewDate(obj, key)

getTime(date) == date
getDay(date) == (date \div MsPerDay) % 7
getHours(date) == (date % MsPerDay) \div MsPerHour
getMinutes(date) == (date % MsPerHour) \div MsPerMinute

\* date-fns, weekStartsOn 0: addDays(date, day - date.getDay()).
setDay(date, day) == date + (day - getDay(date)) * MsPerDay
addWeeks(date, amount) == date + amount * 7 * MsPerDay
\* date-fns isBefore is +date < +dateToCompare: false when either is NaN.
isBefore(date, dateToCompare) ==
    date # NaN /\ dateToCompare # NaN /\ date < dateToCompare
\* dateFrom >= now on Date objects: false when dateFrom is NaN.
DateGeq(a, b) == a # NaN /\ b # NaN /\ a >= b

\* The two-digit strings "00" .. "59".
TwoDigits ==
    <<
       "00", "01", "02", "03", "04", "05", "06", "07", "08", "09",
       "10", "11", "12", "13", "14", "15", "16", "17", "18", "19",
       "20", "21", "22", "23", "24", "25", "26", "27", "28", "29",
       "30", "31", "32", "33", "34", "35", "36", "37", "38", "39",
       "40", "41", "42", "43", "44", "45", "46", "47", "48", "49",
       "50", "51", "52", "53", "54", "55", "56", "57", "58", "59"
    >>
Pad2(n) == TwoDigits[n + 1]

\* parseInt of a two-digit string.
parseInt(s) == CHOOSE n \in 0..59 : TwoDigits[n + 1] = s

\* Calendar day of an instant: Epoch is 22/06/2025 and June has 30 days.
DayOfMonth(date) ==
    LET d == date \div MsPerDay IN IF d <= 8 THEN 22 + d ELSE d - 8
MonthOf(date) ==
    LET d == date \div MsPerDay IN IF d <= 8 THEN 6 ELSE 7

WeekdayNames(lang) ==
    CASE lang = "fr" -> <<"dimanche", "lundi", "mardi", "mercredi", "jeudi",
                          "vendredi", "samedi">>
      [] lang = "de" -> <<"Sonntag", "Montag", "Dienstag", "Mittwoch",
                          "Donnerstag", "Freitag", "Samstag">>
      [] OTHER       -> <<"Sunday", "Monday", "Tuesday", "Wednesday", "Thursday",
                          "Friday", "Saturday">>

\* date-fns format(date, 'EEEE', {locale}), 'dd/MM/yyyy' and 'HH:mm'.
formatEEEE(date, lang) == <<WeekdayNames(lang)[getDay(date) + 1]>>
formatDate(date) ==
    <<Pad2(DayOfMonth(date)), "/", Pad2(MonthOf(date)), "/", "2025">>
formatTime(date) == <<Pad2(getHours(date)), ":", Pad2(getMinutes(date))>>

----------------------------------------------------------------------------
(* fetchEchoData: the mapping of one record *)

Has(obj, key) == key \in DOMAIN obj

\* openingHours of a window that has none (undefined or null): falsy.
NullHours == [null |-> TRUE]

\* The loop breaking on dateFrom > now only.
RECURSIVE dateLoopStrict(_, _, _, _)
dateLoopStrict(dates, t, i, seen) ==
    IF i > Len(dates) THEN seen
    ELSE LET dateObject == dates[i]
             cur == [dateFrom |-> NewDate(dateObject, "from"),
                     dateTo |-> NewDate(dateObject, "to"),
                     openingHours |-> IF Has(dateObject, "openingHours")
                                      THEN dateObject.openingHours
                                      ELSE NullHours]
         IN IF (cur.dateFrom # NaN /\ cur.dateFrom > t) \/ Len(dates) = 1
            THEN cur
            ELSE dateLoopStrict(dates, t, i + 1, cur)

\* Lines 138-153: the loop over record.dates and the fallback after it.
\* Null stands for the undefined of a let that was never assigned.
RECURSIVE dateLoop(_, _, _, _)
dateLoop(dates, t, i, seen) ==
    IF i > Len(dates) THEN seen
    ELSE LET dateObject == dates[i]
             cur == [dateFrom |-> NewDate(dateObject, "from"),
                     dateTo |-> NewDate(dateObject, "to"),
                     openingHours |-> IF Has(dateObject, "openingHours")
                                      THEN dateObject.openingHours
                                      ELSE NullHours]
         IN IF DateGeq(cur.dateFrom, t) \/ Len(dates) = 1
            THEN cur
            ELSE dateLoop(dates, t, i + 1, cur)

dateWindow(record, t) ==
    LET seen == dateLoop(record.dates, t, 1,
                         [dateFrom |-> Null, dateTo |-> Null,
                          openingHours |-> NullHours])
    IN IF seen.dateFrom = Null \/ seen.dateTo = Null
       THEN [dateFrom |-> t, dateTo |-> t, openingHours |-> NullHours]
       ELSE seen

daysOfWeek ==
    <<"sunday", "monday", "tuesday", "wednesday", "thursday", "friday", "saturday">>

\* openingHours[day].from.split(':')[0]
splitColon0(s) == s[1]

\* The candidate without the move of an earlier weekday to next week.
possibleDateSameWeek(t, openingHours, index) ==
    LET day == daysOfWeek[index + 1]
        p0 == setDay(addWeeks(t, 0), index)
    IN IF index = getDay(t)
          /\ getHours(t) > parseInt(splitColon0(openingHours[day].from))
       THEN addWeeks(p0, 1) ELSE p0

\* Lines 171-180: the candidate date of weekday index.
possibleDate(t, openingHours, index) ==
    LET day == daysOfWeek[index + 1]
        checkDate == addWeeks(t, 0)
        p0 == setDay(checkDate, index)
        p1 == IF index = getDay(t)
                 /\ getHours(t) > parseInt(splitColon0(openingHours[day].from))
              THEN addWeeks(p0, 1) ELSE p0
    IN IF index < getDay(t) THEN addWeeks(p1, 1) ELSE p1

\* The range check without its upper end.
inRangeNoEnd(record, p) == ~isBefore(p, parseISO(record.dates[1], "from"))

\* Lines 183-184: within the record's overall range, the first window's.
inRange(record, p) ==
    /\ ~isBefore(p, parseISO(record.dates[1], "from"))
    /\ ~isBefore(parseISO(record.dates[1], "to"), p)

\* Lines 169-191: one pass over the weekdays, from weekday index on.
RECURSIVE dayLoop(_, _, _, _, _)
dayLoop(record, t, openingHours, index, next) ==
    IF index > 6 THEN next
    ELSE LET day == daysOfWeek[index + 1]
             p == possibleDate(t, openingHours, index)
             upd == IF /\ Has(openingHours, day)
                       /\ inRange(record, p)
                       /\ (next.nextDate = Null \/ isBefore(p, next.nextDate))
                    THEN [nextDate |-> p, nextTime |-> openingHours[day].from]
                    ELSE next
         IN dayLoop(record, t, openingHours, index + 1, upd)

\* Lines 161-192: the seven passes for (let i = 0; i < 7; i++).
RECURSIVE weekLoop(_, _, _, _, _)
weekLoop(record, t, openingHours, i, next) ==
    IF i >= 7 THEN next
    ELSE weekLoop(record, t, openingHours, i + 1,
                  dayLoop(record, t, openingHours, 0, next))

nextOccurrence(record, t, openingHours) ==
    weekLoop(record, t, openingHours, 0, [nextDate |-> Null, nextTime |-> <<>>])

FromTo(startDate, endDate) == <<"From ">> \o startDate \o <<" to ">> \o endDate
DayDateTime(day, date, time) == day \o <<", ">> \o date \o <<", ">> \o time
DayDateTimes(day, date, startTime, endTime) ==
    day \o <<", ">> \o date \o <<", ">> \o startTime \o <<"-">> \o endTime

\* The span test with >= for >.
atLeast24Hours(dateFrom, dateTo) ==
    dateFrom # NaN /\ dateTo # NaN
    /\ getTime(dateTo) - getTime(dateFrom) >= 24 * 60 * 60 * 1000

\* Line 210
moreThan24Hours(dateFrom, dateTo) ==
    dateFrom # NaN /\ dateTo # NaN
    /\ getTime(dateTo) - getTime(dateFrom) > 24 * 60 * 60 * 1000

\* Lines 159-206: date and dateString of a record with opening hours.
recurringDate(record, t, lang, w) ==
    LET next == nextOccurrence(record, t, w.openingHours)
    IN IF next.nextDate # Null /\ next.nextTime # <<>>
       THEN [date |-> next.nextDate,
             dateString |-> DayDateTime(formatEEEE(next.nextDate, lang),
                                        formatDate(next.nextDate), next.nextTime)]
       ELSE [date |-> w.dateFrom,
             dateString |-> FromTo(formatDate(w.dateFrom), formatDate(w.dateTo))]

\* Lines 207-226: date and dateString of a record without opening hours.
nonRecurringDate(lang, w) ==
    LET day == formatEEEE(w.dateFrom, lang)
        startDate == formatDate(w.dateFrom)
        endDate == formatDate(w.dateTo)
        startTime == formatTime(w.dateFrom)
        endTime == formatTime(w.dateTo)
    IN [date |-> w.dateFrom,
        dateString |->
            IF moreThan24Hours(w.dateFrom, w.dateTo)
            THEN FromTo(startDate, endDate)
            ELSE IF startDate = endDate
                 THEN DayDateTime(day, startDate, startTime)
                 ELSE DayDateTimes(day, startDate, startTime, endTime)]

eventDate(record, t, lang) ==
    LET w == dateWindow(record, t)
    IN IF w.openingHours # NullHours
       THEN recurringDate(record, t, lang, w)
       ELSE nonRecurringDate(lang, w)

\* format() of an Invalid Date throws RangeError: the formats the taken
\* branch evaluates, lines 196-197, 202-203 and 212-216.
dateThrows(record, t) ==
    LET w == dateWindow(record, t)
    IN IF w.openingHours # NullHours
       THEN LET next == nextOccurrence(record, t, w.openingHours)
            IN ~(next.nextDate # Null /\ next.nextTime # <<>>)
               /\ (w.dateFrom = NaN \/ w.dateTo = NaN)
       ELSE w.dateFrom = NaN \/ w.dateTo = NaN

\* A string that is undefined or "" is falsy in an || chain.
StrOr(obj, key, rest) ==
    IF Has(obj, key) /\ obj[key] # <<>> THEN obj[key] ELSE rest

\* value ?? '' of an optional-chained property
OrEmpty(obj, key) == IF Has(obj, key) THEN obj[key] ELSE <<>>

Undefined == <<"undefined">>
OrUndefined(obj, key) == IF Has(obj, key) THEN obj[key] ELSE Undefined

\* Lines 229-235
addressOf(record) ==
    LET venue == IF Len(record.venues) > 0 THEN record.venues[1] ELSE <<>>
        location == IF Has(venue, "location") THEN venue.location ELSE <<>>
        addr == IF Has(location, "address") THEN location.address ELSE <<>>
    IN OrEmpty(addr, "number") \o <<" ">> \o OrEmpty(addr, "street") \o <<", ">>
       \o OrEmpty(addr, "postcode") \o <<" ">> \o OrEmpty(addr, "town")

\* Line 236: record.pictures[0]?.previews?.media?.url || ''
imageUrlOf(record) ==
    LET picture == IF Len(record.pictures) > 0 THEN record.pictures[1] ELSE <<>>
        previews == IF Has(picture, "previews") THEN picture.previews ELSE <<>>
        media == IF Has(previews, "media") THEN previews.media ELSE <<>>
    IN OrEmpty(media, "url")

\* Lines 289-291
absoluteImageUrlOf(imageUrl) ==
    IF imageUrl # <<>>
    THEN IF imageUrl[1] = "http" THEN imageUrl ELSE <<"https://echo.lu">> \o imageUrl
    ELSE <<>>

\* The title placeholder of line 237, written without its accents.
Placeholder == <<"Evenement">>

\* The chain in the order en, fr, de.
titleEnglishFirst(record, lang) ==
    StrOr(record.title, "en",
          StrOr(record.title, "fr",
                StrOr(record.title, "de", Placeholder)))

\* Lines 237 and 261
titleOf(record, lang) ==
    StrOr(record.title, lang,
          StrOr(record.title, "fr",
                StrOr(record.title, "de",
                      StrOr(record.title, "en", Placeholder))))

initialDescriptionOf(record, lang) ==
    StrOr(record.description, lang,
          StrOr(record.description, "fr",
                StrOr(record.description, "de",
                      StrOr(record.description, "en", <<>>))))

\* Lines 263-286: the description.  A text is a sequence of tokens: a tag, a
\* white-space character, an entity or a word.
TagTokens ==
    {"<style>", "</style>", "<p>", "</p>", "<p class>", "<div>", "</div>",
     "<b>", "</b>", "<br/><br/>"}
LineBreak == "\n"
BlankLine == "\n\n"
\* The character U+FEFF of line 281.
ZeroWidth == "U+FEFF"
\* What \s and trim() take for white space; U+FEFF is part of it.
WhiteSpace == {" ", LineBreak, BlankLine, ZeroWidth}

\* The least j >= i with text[j] in tokens, 0 when there is none.
indexFrom(text, i, tokens) ==
    LET hits == {j \in i..Len(text) : text[j] \in tokens}
    IN IF hits = {} THEN 0 ELSE CHOOSE j \in hits : \A k \in hits : j <= k

\* Line 266: replace(/<style[^>]*>[\s\S]*?<\/style>/gi, '')
RECURSIVE removeStyle(_, _)
removeStyle(text, i) ==
    IF i > Len(text) THEN <<>>
    ELSE LET close == indexFrom(text, i + 1, {"</style>"})
         IN IF text[i] = "<style>" /\ close # 0
            THEN removeStyle(text, close + 1)
            ELSE <<text[i]>> \o removeStyle(text, i + 1)

\* replace(/<[^>]*>/g, '')
stripTags(text) == SelectSeq(text, LAMBDA token : token \notin TagTokens)

\* Line 269: match(/<p>(.*?)<\/p>/g); the dot matches no line break.  The
\* matches, each without its <p> and </p> (line 271, '$1').
RECURSIVE matchParagraphs(_, _)
matchParagraphs(text, i) ==
    IF i > Len(text) THEN <<>>
    ELSE LET close == indexFrom(text, i + 1, {"</p>"})
         IN IF /\ text[i] = "<p>"
               /\ close # 0
               /\ \A j \in (i + 1)..(close - 1) : text[j] \notin {LineBreak, BlankLine}
            THEN <<SubSeq(text, i + 1, close - 1)>> \o matchParagraphs(text, close + 1)
            ELSE matchParagraphs(text, i + 1)

\* join('\n\n')
RECURSIVE joinBlankLine(_)
joinBlankLine(parts) ==
    IF parts = <<>> THEN <<>>
    ELSE IF Len(parts) = 1 THEN parts[1]
    ELSE parts[1] \o <<BlankLine>> \o joinBlankLine(Tail(parts))

\* Lines 269-272: the paragraphs without their tags, joined; '' for no match.
extractParagraphs(text) ==
    LET matches == matchParagraphs(text, 1)
    IN joinBlankLine([k \in 1..Len(matches) |-> stripTags(matches[k])])

\* trim()
RECURSIVE trim(_)
trim(text) ==
    IF text = <<>> THEN <<>>
    ELSE IF text[1] \in WhiteSpace THEN trim(Tail(text))
    ELSE IF text[Len(text)] \in WhiteSpace THEN trim(SubSeq(text, 1, Len(text) - 1))
    ELSE text

\* replace(/\s+/g, ' ')
RECURSIVE collapseSpaces(_)
collapseSpaces(text) ==
    IF text = <<>> THEN <<>>
    ELSE IF text[1] \in WhiteSpace
         THEN IF Len(text) > 1 /\ text[2] \in WhiteSpace
              THEN collapseSpaces(Tail(text))
              ELSE <<" ">> \o collapseSpaces(Tail(text))
         ELSE <<text[1]>> \o collapseSpaces(Tail(text))

\* Lines 281 and 284
replaceToken(text, from, to) ==
    [k \in 1..Len(text) |-> IF text[k] = from THEN to ELSE text[k]]

\* Lines 263-286
descriptionOf(initialDescription) ==
    LET noStyle == removeStyle(initialDescription, 1)
        paragraphs == extractParagraphs(noStyle)
        plain == collapseSpaces(trim(stripTags(paragraphs)))
    IN replaceToken(replaceToken(plain, ZeroWidth, "<br/><br/>"), "&nbsp;", " ")

\* The property reads that throw TypeError on a record lacking the field:
\* record.dates (140), record.venues[0] (229), record.pictures[0] (236),
\* record.title[lang] (237), record.description[lang] (261).
fieldThrows(record) ==
    \/ ~Has(record, "dates")
    \/ ~Has(record, "venues")
    \/ ~Has(record, "pictures")
    \/ ~Has(record, "title")
    \/ ~Has(record, "description")

recordThrows(record, t) == fieldThrows(record) \/ dateThrows(record, t)

\* Lines 134-311: the event of one record (one that does not throw).
mapRecord(record, t, lang) ==
    LET d == eventDate(record, t, lang)
        imageUrl == imageUrlOf(record)
        salesContact == IF Has(record, "salesContact") THEN record.salesContact ELSE <<>>
    IN [id |-> record.id,
        url |-> <<"https://www.echo.lu/en/experiences/", record.id>>,
        title |-> titleOf(record, lang),
        description |-> descriptionOf(initialDescriptionOf(record, lang)),
        date |-> d.date,
        dateString |-> d.dateString,
        address |-> addressOf(record),
        imageUrl |-> imageUrl,
        absoluteImageUrl |-> absoluteImageUrlOf(imageUrl),
        initialDescription |-> initialDescriptionOf(record, lang),
        contactName |-> OrUndefined(salesContact, "name"),
        phone |-> OrUndefined(salesContact, "phone"),
        email |-> OrUndefined(salesContact, "email"),
        website |-> OrUndefined(salesContact, "website"),
        record |-> record]

\* Lines 313-314: Array.prototype.sort (stable) by a.date - b.date.
RECURSIVE insertByDate(_, _)
insertByDate(sorted, e) ==
    IF sorted = <<>> THEN <<e>>
    ELSE LET last == sorted[Len(sorted)]
         IN IF getTime(last.date) - getTime(e.date) > 0
            THEN Append(insertByDate(SubSeq(sorted, 1, Len(sorted) - 1), e), last)
            ELSE Append(sorted, e)

\* The list left in the order of the response.
unsorted(list) == list

RECURSIVE sortByDate(_)
sortByDate(list) ==
    IF list = <<>> THEN <<>>
    ELSE insertByDate(sortByDate(SubSeq(list, 1, Len(list) - 1)), list[Len(list)])

\* Lines 315-318
hasImage(event) == event.absoluteImageUrl # <<>>
filterImages(list) == SelectSeq(list, hasImage)

\* Line 125
langOf(q) == IF Has(q, "lang") /\ q["lang"] # "" THEN q["lang"] ELSE "fr"

\* Lines 134-318: data.records.map(...).sort(...).filter(...)
mapRecords(records, t, lang) ==
    filterImages(sortByDate([i \in 1..Len(records) |-> mapRecord(records[i], t, lang)]))

----------------------------------------------------------------------------
(* fetchEchoData: the query parameters of the request *)

\* Date.prototype.getDate, setDate and setHours, in local time.
getDate(date) == DayOfMonth(date)
setDate(date, day) == date + (day - getDate(date)) * MsPerDay
setHours(date, h, mi, s, ms) == (date - (date % MsPerDay)) + At(0, h, mi, s, ms)

\* new Date(year, month + 1, 0, 23, 59, 59, 999): the last day of the month.
DaysInMonth(month) == IF month = 6 THEN 30 ELSE 31
lastOfMonth(date) ==
    setHours(setDate(date, DaysInMonth(MonthOf(date))), 23, 59, 59, 999)

\* Local time is UTC+2 (Luxembourg, summer).
TimezoneOffset == 2 * MsPerHour

\* toISOString(): the calendar fields of the instant in UTC.
toISOString(date) ==
    LET utc == date - TimezoneOffset
    IN [d |-> utc \div MsPerDay,
        h |-> (utc % MsPerDay) \div MsPerHour,
        mi |-> (utc % MsPerHour) \div MsPerMinute,
        s |-> (utc % MsPerMinute) \div MsPerSecond,
        ms |-> utc % MsPerSecond]

\* Lines 90-91: .split('.')[0] + 'Z' drops the milliseconds.
splitDot0Z(iso) == [d |-> iso.d, h |-> iso.h, mi |-> iso.mi, s |-> iso.s, z |-> "Z"]

\* Line 51: timeRange.replace(/[\[\]]/g, '')
cleanTimeRange(timeRange) ==
    SelectSeq(timeRange, LAMBDA token : token \notin {"[", "]"})

\* Lines 46-88: fromDate and toDate of the switch; now, fromDate and toDate
\* start as the same instant.
dateRange(timeRange, t) ==
    LET range == cleanTimeRange(timeRange)
    IN CASE range = <<"today">> ->
              [from |-> setHours(t, 0, 0, 0, 0),
               to |-> setHours(t, 23, 59, 59, 999)]
         [] range = <<"tomorrow">> ->
              [from |-> setHours(setDate(t, getDate(t) + 1), 0, 0, 0, 0),
               to |-> setHours(setDate(t, getDate(t) + 1), 23, 59, 59, 999)]
         [] range = <<"weekend">> ->
              LET daysUntilWeekend == (6 - getDay(t) + 7) % 7
                  fromDate == setHours(setDate(t, getDate(t) + daysUntilWeekend),
                                       0, 0, 0, 0)
              IN [from |-> fromDate,
                  to |-> setHours(setDate(fromDate, getDate(fromDate) + 1),
                                  23, 59, 59, 999)]
         [] range = <<"week">> ->
              [from |-> setHours(t, 0, 0, 0, 0),
               to |-> setHours(setDate(t, getDate(t) + 6), 23, 59, 59, 999)]
         [] range = <<"next-week">> ->
              LET fromDate == setHours(setDate(t, getDate(t) + 7), 0, 0, 0, 0)
              IN [from |-> fromDate,
                  to |-> setHours(setDate(t, getDate(fromDate) + 6),
                                  23, 59, 59, 999)]
         [] range = <<"month">> ->
              [from |-> setHours(t, 0, 0, 0, 0),
               to |-> lastOfMonth(t)]
         [] OTHER -> [from |-> t, to |-> t]

\* Lines 44-92: date[from] and date[to], set when timeRange is truthy.
dateParams(q, t) ==
    IF Has(q, "timeRange") /\ q["timeRange"] # <<>>
    THEN LET range == dateRange(q["timeRange"], t)
         IN ("date[from]" :> <<splitDot0Z(toISOString(range.from))>>)
            @@ ("date[to]" :> <<splitDot0Z(toISOString(range.to))>>)
    ELSE <<>>

\* Line 96
toIgnore == {"api-key", "timeRange", "interval", "currentIndex", "raw", "lang"}

\* Line 102: value.slice(1, -1).split(','), and line 103: v.trim()
RECURSIVE splitComma(_, _)
splitComma(text, part) ==
    IF text = <<>> THEN <<trim(part)>>
    ELSE IF text[1] = "," THEN <<trim(part)>> \o splitComma(Tail(text), <<>>)
    ELSE splitComma(Tail(text), Append(part, text[1]))

\* Lines 99-106: the values appended for one query value (a string).
valuesOf(value) ==
    IF Len(value) >= 1 /\ value[1] = "[" /\ value[Len(value)] = "]"
    THEN splitComma(SubSeq(value, 2, Len(value) - 1), <<>>)
    ELSE <<value>>

\* Lines 41-108: the parameters, each key with its values in order.
paramsOf(q, t) ==
    LET dates == dateParams(q, t)
        others == DOMAIN q \ toIgnore
    IN [key \in DOMAIN dates \cup others |->
           (IF key \in DOMAIN dates THEN dates[key] ELSE <<>>)
           \o (IF key \in others THEN valuesOf(q[key]) ELSE <<>>)]

----------------------------------------------------------------------------
(* The operations *)

\* The test that takes an empty api-key for a key.
apiKeyAbsent(q) == ~Has(q, "api-key")

\* Line 37: !apiKey
noApiKey(q) == ~Has(q, "api-key") \/ q["api-key"] = ""

\* Lines 32-122: fetchEchoData up to its first await.  Without an api-key
\* it resolves to [] at once; otherwise it issues the one fetch().
FetchEchoData ==
    /\ pc = "start"
    /\ IF noApiKey(query)
       THEN /\ pc' = "done"
            /\ events' = <<>>
            /\ UNCHANGED <<requests, params>>
       ELSE /\ pc' = "awaiting"
            /\ params' = paramsOf(query, clock)
            /\ requests' = requests + 1
            /\ UNCHANGED events
    /\ UNCHANGED <<query, clock, response, now, currentIndex>>

\* Lines 123-319: the continuation after the response arrived.  An exception
\* in the mapping rejects the promise, and computedAsync keeps events.value.
ReceiveResponse ==
    /\ pc = "awaiting"
    /\ now' = clock
    /\ IF \E i \in 1..Len(response) : recordThrows(response[i], clock)
       THEN /\ pc' = "rejected"
            /\ UNCHANGED events
       ELSE /\ pc' = "done"
            /\ events' = mapRecords(response, clock, langOf(query))
    /\ UNCHANGED <<query, clock, requests, response, params, currentIndex>>

----------------------------------------------------------------------------
(* The carousel *)

\* Line 326: query.currentIndex ? parseInt(query.currentIndex) : 0
initialIndex(q) ==
    IF Has(q, "currentIndex") /\ q["currentIndex"] # ""
    THEN parseInt(q["currentIndex"])
    ELSE 0

\* a % b for a >= 0: NaN for a NaN operand and for a zero divisor.
Remainder(a, b) == IF a = NaN \/ b = 0 THEN NaN ELSE a % b

\* Line 328: events.value?.[currentIndex.value % events.value.length] ?? null
NullEvent == [null |-> TRUE]
currentEvent ==
    LET index == Remainder(currentIndex, Len(events))
    IN IF index # NaN /\ index + 1 \in 1..Len(events)
       THEN events[index + 1]
       ELSE NullEvent

\* Lines 335-338
nextEvent ==
    currentIndex' =
        IF currentIndex = NaN THEN NaN
        ELSE Remainder(currentIndex + 1, Len(events))

\* Lines 340-343; currentIndex - 1 + length is negative for an empty list
\* only, where the result is NaN.
previousEvent ==
    currentIndex' =
        IF currentIndex = NaN \/ Len(events) = 0 THEN NaN
        ELSE Remainder(currentIndex - 1 + Len(events), Len(events))

\* Line 352: the interval timer fires.
TimerTick ==
    /\ nextEvent
    /\ UNCHANGED <<pc, query, clock, requests, response, now, events, params>>

\* Lines 356-362: a key goes down.
KeyDown ==
    /\ \E key \in {"ArrowRight", "ArrowLeft", "Enter"} :
          IF key = "ArrowRight" THEN nextEvent
          ELSE IF key = "ArrowLeft" THEN previousEvent
          ELSE UNCHANGED currentIndex
    /\ UNCHANGED <<pc, query, clock, requests, response, now, events, params>>

----------------------------------------------------------------------------
(* Inputs: what the API can send and what the page is loaded with *)

Venue ==
    [location |-> [address |-> [number |-> <<"5">>, street |-> <<"rue du Fort">>,
                                postcode |-> <<"L-1234">>, town |-> <<"Luxembourg">>]]]
Picture(url) == [previews |-> [media |-> [url |-> url]]]
RelativeUrl == <<"/", "media/a.jpg">>
AbsoluteUrl == <<"http", "s://cdn.echo.lu/b.jpg">>
Contact == [name |-> <<"Ann">>, phone |-> <<"+352 1">>, email |-> <<"a@b.lu">>,
            website |-> <<"b.lu">>]

\* A record with every field, apart from its id.
Record(dates, pictures) ==
    [dates |-> dates, venues |-> <<Venue>>, pictures |-> pictures,
     title |-> [fr |-> <<"Fete">>, en |-> <<"Party">>],
     description |-> [fr |-> <<"Bonjour">>], salesContact |-> Contact]

Window(from, to) == [from |-> from, to |-> to]
OpenWindow(from, to, openingHours) ==
    [from |-> from, to |-> to, openingHours |-> openingHours]

\* obj without the key
Without(obj, key) == [k \in DOMAIN obj \ {key} |-> obj[k]]

Opening(time) == [from |-> time]
T1000 == <<"10", ":", "00">>
T1830 == <<"18", ":", "30">>

\* A two-hour event starting 10:00 on day d.
Evening(d) == Window(Iso(d, 10, 0, 0, 0), Iso(d, 12, 0, 0, 0))

\* The records of the batches: three dated events with an image, records
\* without a picture preview, a recurring record, a record without dates,
\* and the malformed records.
WellFormedRecords ==
    {Record(<<Evening(d)>>, <<Picture(RelativeUrl)>>) : d \in {9, 10, 11}}
    \cup {Record(<<Evening(10)>>, <<Picture(AbsoluteUrl)>>),
          Record(<<Evening(9)>>, <<>>),
          Record(<<Evening(12)>>, <<[id |-> <<"p1">>]>>),
          Record(<<OpenWindow(Iso(0, 0, 0, 0, 0), Iso(20, 0, 0, 0, 0),
                              [monday |-> Opening(T1000)])>>,
                 <<Picture(RelativeUrl)>>),
          Record(<<>>, <<Picture(RelativeUrl)>>)}

MalformedRecords ==
    {Without(Record(<<Evening(10)>>, <<Picture(RelativeUrl)>>), k) :
        k \in {"dates", "venues", "pictures", "title", "description", "salesContact"}}
    \cup {Record(<<Without(Evening(10), "from")>>, <<Picture(RelativeUrl)>>),
          Record(<<Without(Evening(10), "to")>>, <<Picture(RelativeUrl)>>)}

BatchRecords == WellFormedRecords \cup MalformedRecords

Queries ==
    {("lang" :> l) : l \in {"en"}}
    \cup {("api-key" :> k) : k \in {"", "secret"}}
    \cup {("api-key" :> k) @@ ("lang" :> l) : k \in {"", "secret"}, l \in {"de"}}

BatchClocks == {At(3, 9, 0, 0, 0), At(10, 10, 30, 0, 0)}

\* The API assembles the response: records get distinct ids.
ServerAddRecord ==
    /\ pc = "awaiting"
    /\ Len(response) < MaxRecords
    /\ \E r \in BatchRecords :
         response' = Append(response, ("id" :> Len(response) + 1) @@ r)
    /\ UNCHANGED <<pc, query, clock, requests, now, events, params, currentIndex>>

Init ==
    /\ pc = "start"
    /\ query \in Queries
    /\ clock \in BatchClocks
    /\ requests = 0
    /\ response = <<>>
    /\ now = NaN
    /\ events = <<>>
    /\ params = <<>>
    /\ currentIndex = initialIndex(query)

Next == FetchEchoData \/ ServerAddRecord \/ ReceiveResponse

Spec == Init /\ [][Next]_vars

----------------------------------------------------------------------------
(* One record at a time: the mapping applied to a single-record response, *)
(* over the shapes of dates[] and openingHours the API sends.             *)

\* The ISO timestamp of an instant.
IsoOf(t) ==
    Iso(t \div MsPerDay, getHours(t), getMinutes(t),
        (t % MsPerMinute) \div MsPerSecond, t % MsPerSecond)

\* Window lists: starts before, at and after the clock, with spans and
\* opening hours that tell the windows apart.
WindowStarts == {Iso(1, 20, 0, 0, 0), Iso(3, 9, 0, 0, 0), Iso(3, 11, 0, 0, 0)}
WindowsFrom(from) ==
    LET t == At(from.d, from.h, from.mi, from.s, from.ms)
    IN {Window(from, IsoOf(t + 2 * MsPerHour)),
        Window(from, IsoOf(t + 30 * MsPerHour)),
        OpenWindow(from, IsoOf(t + 3 * MsPerDay), [friday |-> Opening(T1830)])}
ListWindows == UNION {WindowsFrom(from) : from \in WindowStarts}
WindowLists == UNION {[1..n -> ListWindows] : n \in 1..MaxWindows}
WindowClocks == {At(3, 9, 0, 0, 0), At(3, 12, 0, 0, 0)}

\* Opening hours: at most MaxOpeningDays weekdays, each opening at one of two times.
DayNames == {daysOfWeek[i] : i \in 1..7}
OpeningHoursSet ==
    UNION {[S -> {Opening(T1000), Opening(T1830)}] :
              S \in {D \in SUBSET DayNames : Cardinality(D) <= MaxOpeningDays}}

\* Overall ranges of a recurring record: wide, ending on Wednesday 10:00,
\* starting on Friday, and over before any clock value.
Ranges ==
    {<<Iso(0, 0, 0, 0, 0), Iso(20, 0, 0, 0, 0)>>,
     <<Iso(0, 0, 0, 0, 0), Iso(3, 10, 0, 0, 0)>>,
     <<Iso(5, 0, 0, 0, 0), Iso(9, 23, 59, 59, 0)>>,
     <<Iso(0, 0, 0, 0, 0), Iso(0, 8, 0, 0, 0)>>}
LaterRange == <<Iso(14, 0, 0, 0, 0), Iso(20, 0, 0, 0, 0)>>

\* dates[] of a recurring record: one window, or a first window followed by
\* a later one that carries the opening hours.
RecurringDates(range, openingHours) ==
    {<<OpenWindow(range[1], range[2], openingHours)>>,
     <<Window(range[1], range[2]),
       OpenWindow(LaterRange[1], LaterRange[2], openingHours)>>}
\* Two windows with opening hours each, the first starting on Friday.
TwoOpenWindows(openingHours) ==
    <<OpenWindow(Iso(5, 0, 0, 0, 0), Iso(9, 23, 59, 59, 0), [sunday |-> Opening(T1830)]),
      OpenWindow(LaterRange[1], LaterRange[2], openingHours)>>
RecurringLists ==
    UNION {RecurringDates(range, oh) : range \in Ranges, oh \in OpeningHoursSet}
    \cup {TwoOpenWindows(oh) : oh \in OpeningHoursSet}
ClockDays == {0, 3, 6}
RecurringClocks ==
    {At(d, 9, 0, 0, 0) : d \in ClockDays} \cup {At(d, 10, 30, 0, 0) : d \in ClockDays}
    \cup {At(d, 11, 15, 30, 250) : d \in ClockDays}

\* Single windows without opening hours, spans around 24 hours.
Spans ==
    {0 - 2 * MsPerDay, 0 - MsPerHour, 0, MsPerHour, MsPerDay - MsPerSecond, MsPerDay - 1, MsPerDay, MsPerDay + 1,
     MsPerDay + MsPerSecond, 30 * MsPerHour, 3 * MsPerDay}
SpanStarts == {At(2, 0, 0, 0, 0), At(2, 10, 0, 0, 0), At(2, 23, 30, 0, 0)}
SpanLists == {<<Window(IsoOf(t), IsoOf(t + span))>> : t \in SpanStarts, span \in Spans}

Key(lang) == ("api-key" :> "secret") @@ ("lang" :> lang)

OneRecord(dates) == <<("id" :> 1) @@ Record(dates, <<Picture(RelativeUrl)>>)>>

InitRecord ==
    /\ pc = "awaiting"
    /\ requests = 1
    /\ now = NaN
    /\ events = <<>>
    /\ \/ /\ \E dates \in WindowLists : response = OneRecord(dates)
          /\ clock \in WindowClocks
          /\ query = Key("en")
       \/ /\ \E dates \in RecurringLists : response = OneRecord(dates)
          /\ clock \in RecurringClocks
          /\ query = Key("en")
       \/ /\ \E dates \in SpanLists : response = OneRecord(dates)
          /\ clock = At(3, 9, 0, 0, 0)
          /\ query \in {Key("fr"), Key("de"), Key("en"), ("api-key" :> "secret")}
    /\ params = paramsOf(query, clock)
    /\ currentIndex = initialIndex(query)

SpecRecord == InitRecord /\ [][ReceiveResponse]_vars

----------------------------------------------------------------------------
(* Properties of the mapping of one record (SpecRecord) *)

TheRecord == response[1]
TheEvent == events[1]
Mapped == pc = "done" /\ Len(response) = 1 /\ Len(events) = 1

FromOf(dates, i) == NewDate(dates[i], "from")
ToOf(dates, i) == NewDate(dates[i], "to")
HoursOf(dates, i) ==
    IF Has(dates[i], "openingHours") THEN dates[i].openingHours ELSE NullHours

\* The windows that start at or after t, and the window the selector is to pick.
Qualifying(dates, t) == {i \in 1..Len(dates) : FromOf(dates, i) >= t}
FirstQualifying(dates, t) ==
    CHOOSE i \in Qualifying(dates, t) : \A j \in Qualifying(dates, t) : i <= j
ClaimedWindow(dates, t) ==
    IF Qualifying(dates, t) # {} THEN FirstQualifying(dates, t)
    ELSE IF Len(dates) = 1 THEN 1
    ELSE Len(dates)

IsFromTo(dateString) == dateString[1] = "From "

\* C1: over a non-empty dates[] the selected window is the first whose
\* from >= now, else the only window, else the last one; dateFrom, dateTo and
\* openingHours all come from that window, and a window without opening hours
\* gives the event its date and its span.
C1_WindowSelection ==
    (Mapped /\ TheRecord.dates # <<>>) =>
        LET dates == TheRecord.dates
            k == ClaimedWindow(dates, now)
            w == dateWindow(TheRecord, now)
        IN /\ w.dateFrom = FromOf(dates, k)
           /\ w.dateTo = ToOf(dates, k)
           /\ w.openingHours = HoursOf(dates, k)
           /\ ~Has(dates[k], "openingHours") =>
                 /\ TheEvent.date = FromOf(dates, k)
                 /\ IsFromTo(TheEvent.dateString)
                      <=> (ToOf(dates, k) - FromOf(dates, k) > MsPerDay)

\* Three windows, the first in the past and the next two not: the second is used.
C1_Witness ==
    /\ Mapped
    /\ Len(TheRecord.dates) = 3
    /\ Qualifying(TheRecord.dates, now) = {2, 3}
    /\ FromOf(TheRecord.dates, 2) # FromOf(TheRecord.dates, 3)
    /\ ~Has(TheRecord.dates[2], "openingHours")
    /\ TheEvent.date = FromOf(TheRecord.dates, 2)

\* The opening hours the resolver runs on, and whether it runs.
SelectedHours == HoursOf(TheRecord.dates, ClaimedWindow(TheRecord.dates, now))
Recurring == Mapped /\ TheRecord.dates # <<>> /\ SelectedHours # NullHours
Today == getDay(now)
OpenOn(index) == Has(SelectedHours, daysOfWeek[index + 1])
Candidate(index) == possibleDate(now, SelectedHours, index)
DaysFrom(t, n) == t + n * MsPerDay

\* C2: a weekday with opening hours whose index is smaller than today's has
\* its candidate in the following week; the resolved date is never earlier
\* than now; and with monday 10:00, now Wednesday 09:00 and a range holding
\* it, the event is dated the Monday five days after now.
C2_EarlierWeekdayNextWeek ==
    Recurring =>
        /\ \A index \in 0..6 :
              (index < Today /\ OpenOn(index)) =>
                  Candidate(index) = DaysFrom(now, index - Today + 7)
        /\ ~IsFromTo(TheEvent.dateString) => TheEvent.date >= now
        /\ ( /\ SelectedHours = [monday |-> Opening(T1000)]
             /\ now = At(3, 9, 0, 0, 0)
             /\ FromOf(TheRecord.dates, 1) <= DaysFrom(now, 5)
             /\ DaysFrom(now, 5) <= ToOf(TheRecord.dates, 1) )
           => /\ TheEvent.date = DaysFrom(now, 5)
              /\ TheEvent.dateString
                   = <<"Monday", ", ", "30", "/", "06", "/", "2025", ", ", "10", ":", "00">>

C2_Witness ==
    /\ Recurring
    /\ SelectedHours = [monday |-> Opening(T1000)]
    /\ now = At(3, 9, 0, 0, 0)
    /\ TheEvent.date = DaysFrom(now, 5)

\* The opening time of a weekday, as milliseconds after midnight.
OpensAt(time) == parseInt(time[1]) * MsPerHour + parseInt(time[3]) * MsPerMinute
TimeOfDay(t) == t % MsPerDay

\* C3: when today has opening hours and now's time of day exceeds their from
\* time, today's candidate is one week later, else it is today; so an event
\* is not dated today once today's opening time has passed.  Stated for the
\* records whose overall range holds now, where today's candidate is valid
\* whenever it is not moved.
C3_StartedTodayAdvances ==
    ( /\ Recurring
      /\ OpenOn(Today)
      /\ FromOf(TheRecord.dates, 1) <= now
      /\ now <= ToOf(TheRecord.dates, 1) ) =>
        LET opens == OpensAt(SelectedHours[daysOfWeek[Today + 1]].from)
        IN /\ Candidate(Today) =
                IF TimeOfDay(now) > opens THEN DaysFrom(now, 7) ELSE now
           /\ (TimeOfDay(now) > opens /\ ~IsFromTo(TheEvent.dateString))
                 => TheEvent.date \div MsPerDay # now \div MsPerDay

\* The weekdays whose candidate lies in the first window's range.
ValidDays ==
    {index \in 0..6 :
        /\ OpenOn(index)
        /\ FromOf(TheRecord.dates, 1) <= Candidate(index)
        /\ Candidate(index) <= ToOf(TheRecord.dates, 1)}
Earliest ==
    CHOOSE i \in ValidDays :
        \A j \in ValidDays :
            Candidate(i) < Candidate(j) \/ (Candidate(i) = Candidate(j) /\ i <= j)

\* C4: the date of a resolved recurring event lies in [dates[0].from,
\* dates[0].to]; it is the earliest valid candidate, the first weekday in
\* Sunday-first order on a tie, shown with that weekday's opening time; with
\* no valid candidate the event is "From <start> to <end>" of the selected
\* window, dated at that window's dateFrom.
C4_ValidityAndChoice ==
    Recurring =>
        LET dates == TheRecord.dates
            k == ClaimedWindow(dates, now)
        IN IF ValidDays # {}
           THEN /\ TheEvent.date = Candidate(Earliest)
                /\ FromOf(dates, 1) <= TheEvent.date
                /\ TheEvent.date <= ToOf(dates, 1)
                /\ TheEvent.dateString =
                      <<WeekdayNames(langOf(query))[Earliest + 1], ", ">>
                      \o formatDate(TheEvent.date) \o <<", ">>
                      \o SelectedHours[daysOfWeek[Earliest + 1]].from
           ELSE /\ TheEvent.date = FromOf(dates, k)
                /\ TheEvent.dateString =
                      <<"From ">> \o formatDate(FromOf(dates, k))
                      \o <<" to ">> \o formatDate(ToOf(dates, k))

\* The opening hours come from the second window, the range from the first,
\* and two weekdays are valid.
C4_Witness ==
    /\ Recurring
    /\ Len(TheRecord.dates) = 2
    /\ ClaimedWindow(TheRecord.dates, now) = 2
    /\ Cardinality(ValidDays) = 2
    /\ TheEvent.date = Candidate(Earliest)
    /\ Earliest < Today

\* C5: a resolved recurring event is dated on the chosen day at that
\* weekday's opening time, whatever the time of day of now, and its
\* dateString is "<Weekday>, <dd/MM/yyyy>, <HH:MM>" of that day and time.
C5_DateAtOpeningTime ==
    (Recurring /\ ValidDays # {}) =>
        LET time == SelectedHours[daysOfWeek[Earliest + 1]].from
        IN /\ TimeOfDay(TheEvent.date) = OpensAt(time)
           /\ TheEvent.dateString =
                 <<WeekdayNames(langOf(query))[Earliest + 1], ", ">>
                 \o formatDate(TheEvent.date) \o <<", ">> \o time

\* C6: without opening hours the dateString is "From <date> to <date>" exactly
\* when dateTo - dateFrom exceeds 24 hours; otherwise it is "<Weekday>, <date>,
\* <HH:MM>" when both instants are on one calendar day and "<Weekday>, <date>,
\* <HH:MM>-<HH:MM>" when they are not.
C6_NonRecurringFormat ==
    (Mapped /\ TheRecord.dates # <<>> /\ SelectedHours = NullHours) =>
        LET k == ClaimedWindow(TheRecord.dates, now)
            from == FromOf(TheRecord.dates, k)
            to == ToOf(TheRecord.dates, k)
            dateString == TheEvent.dateString
            head == <<WeekdayNames(langOf(query))[getDay(from) + 1], ", ">>
                    \o formatDate(from) \o <<", ">> \o formatTime(from)
        IN /\ IsFromTo(dateString) <=> (to - from > MsPerDay)
           /\ (to - from > MsPerDay) =>
                 dateString = <<"From ">> \o formatDate(from) \o <<" to ">> \o formatDate(to)
           /\ (to - from <= MsPerDay) =>
                 dateString = IF from \div MsPerDay = to \div MsPerDay
                              THEN head
                              ELSE head \o <<"-">> \o formatTime(to)

\* A span of exactly 24 hours is shown with its two times.
C6_Witness ==
    /\ Mapped
    /\ Len(TheRecord.dates) = 1
    /\ SelectedHours = NullHours
    /\ ToOf(TheRecord.dates, 1) - FromOf(TheRecord.dates, 1) = MsPerDay
    /\ ~IsFromTo(TheEvent.dateString)
    /\ Len(TheEvent.dateString) = 15

----------------------------------------------------------------------------
(* Properties of the list assembly (Spec) *)

Settled == pc \in {"done", "rejected"}
KeyMissing == ~("api-key" \in DOMAIN query) \/ query["api-key"] = ""

\* A record whose first picture has a preview URL.
HasPreview(record) ==
    /\ Has(record, "pictures")
    /\ Len(record.pictures) > 0
    /\ Has(record.pictures[1], "previews")
    /\ Has(record.pictures[1].previews, "media")
    /\ Has(record.pictures[1].previews.media, "url")
    /\ record.pictures[1].previews.media.url # <<>>

\* A record with every field of the data model and from/to in every window.
WellFormed(record) ==
    /\ \A key \in {"dates", "venues", "pictures", "title", "description", "salesContact"} :
          Has(record, key)
    /\ \A i \in 1..Len(record.dates) :
          Has(record.dates[i], "from") /\ Has(record.dates[i], "to")

Occurrences(record) ==
    Cardinality({k \in 1..Len(events) : events[k].id = record.id})

\* A record with one window and no opening hours is dated at that window's from.
Plain(record) ==
    /\ WellFormed(record)
    /\ Len(record.dates) = 1
    /\ ~Has(record.dates[1], "openingHours")

\* C7: the returned list is in non-decreasing order of date, also after the
\* image filter; three records dated D1, D2, D3 in input order with
\* D1 < D3 < D2 come out first, third, second.
C7_SortedByDate ==
    /\ \A k \in 1..(Len(events) - 1) : events[k].date <= events[k + 1].date
    /\ ( /\ pc = "done"
         /\ Len(response) = 3
         /\ \A i \in 1..3 : Plain(response[i]) /\ HasPreview(response[i])
         /\ FromOf(response[1].dates, 1) < FromOf(response[3].dates, 1)
         /\ FromOf(response[3].dates, 1) < FromOf(response[2].dates, 1) )
       => [k \in 1..Len(events) |-> events[k].id] = <<1, 3, 2>>

C7_Witness ==
    /\ pc = "done"
    /\ Len(events) = 3
    /\ [k \in 1..3 |-> events[k].id] = <<1, 3, 2>>
    /\ events[1].date < events[2].date
    /\ events[2].date < events[3].date

\* C8: once the fetch has settled no listed event has an empty
\* absoluteImageUrl, a record without a picture preview is not listed
\* whatever its dates, and every record that has all its fields and a preview
\* URL is listed exactly once.
C8_ImageFilter ==
    (Settled /\ ~KeyMissing) =>
        /\ \A k \in 1..Len(events) : events[k].absoluteImageUrl # <<>>
        /\ \A i \in 1..Len(response) :
              /\ ~HasPreview(response[i]) => Occurrences(response[i]) = 0
              /\ (HasPreview(response[i]) /\ WellFormed(response[i]))
                    => Occurrences(response[i]) = 1

\* What the sort and the filter do give: the same, of the lists that are returned.
ImageFilterOfReturnedList ==
    (pc = "done" /\ ~KeyMissing) =>
        /\ \A k \in 1..Len(events) : events[k].absoluteImageUrl # <<>>
        /\ \A i \in 1..Len(response) :
              Occurrences(response[i]) = IF HasPreview(response[i]) THEN 1 ELSE 0

\* C9: without an api-key (absent or empty) no request is ever sent, the
\* fetch never fails, and the event list is empty, whatever the other
\* parameters.
C9_NoApiKey ==
    KeyMissing =>
        /\ requests = 0
        /\ response = <<>>
        /\ pc \in {"start", "done"}
        /\ events = <<>>

C9_Witness ==
    /\ KeyMissing
    /\ Has(query, "lang")
    /\ pc = "done"
    /\ requests = 0
    /\ events = <<>>

\* C10: a malformed record does not abort the batch: the mapping completes
\* and every well-formed record of the batch that has an image is listed.
C10_MalformedDoesNotAbort ==
    (Settled /\ ~KeyMissing) =>
        /\ pc = "done"
        /\ \A i \in 1..Len(response) :
              (WellFormed(response[i]) /\ HasPreview(response[i]))
                  => Occurrences(response[i]) = 1

----------------------------------------------------------------------------
(* Titles and descriptions: the mapping applied to one record, over the *)
(* locale maps and the description texts the API sends (SpecText).      *)

Locales == {"fr", "de", "en"}
TitleIn == [fr |-> <<"Titre">>, de |-> <<"Titel">>, en |-> <<"Title">>]
TextIn == [fr |-> <<"Bonjour">>, de |-> <<"Hallo">>, en |-> <<"Hello">>]

\* The locale maps: each locale absent, empty or with its own text.
LocaleMaps(text) ==
    UNION {{f \in [S -> {<<>>} \cup {text[k] : k \in S}] :
               \A k \in S : f[k] \in {<<>>, text[k]}} : S \in SUBSET Locales}

\* The page loaded with each lang, with none and with an empty one.
LangQueries ==
    {Key(l) : l \in Locales \cup {""}} \cup {("api-key" :> "secret")}

TextRecord(title, description) ==
    <<("id" :> 1) @@ [Record(<<Evening(10)>>, <<Picture(RelativeUrl)>>)
                         EXCEPT !.title = title, !.description = description]>>

\* The requested locale, and the first non-empty entry of a locale map along
\* the chain requested, fr, de, en (0 when there is none).
Requested == IF Has(query, "lang") /\ query["lang"] # "" THEN query["lang"] ELSE "fr"
Chain == <<Requested, "fr", "de", "en">>
Filled(map) == {i \in 1..4 : Has(map, Chain[i]) /\ map[Chain[i]] # <<>>}
FirstFilled(map) ==
    IF Filled(map) = {} THEN 0
    ELSE CHOOSE i \in Filled(map) : \A j \in Filled(map) : i <= j
AllEmpty(map) == \A k \in Locales : ~Has(map, k) \/ map[k] = <<>>

----------------------------------------------------------------------------
(* Description texts *)

MaxParagraphs == 3
MaxTokens == 3

StyleBlock == <<"<style>", ".a{}", "</style>">>
Paragraph(words) == <<"<p>">> \o words \o <<"</p>">>
ParagraphTexts == {<<"Hello">>, <<"World">>, <<"Hi", " ", "there">>}
ParagraphLists == UNION {[1..n -> ParagraphTexts] : n \in 1..MaxParagraphs}

RECURSIVE Concat(_)
Concat(parts) == IF parts = <<>> THEN <<>> ELSE parts[1] \o Concat(Tail(parts))

\* A style block and then the paragraphs.
StyledParagraphs(texts) ==
    StyleBlock \o Concat([k \in 1..Len(texts) |-> Paragraph(texts[k])])

\* Texts without a <p>...</p> element: plain, in other markup, after a style block.
UnmarkedTexts ==
    {<<"Hello", " ", "World">>,
     <<"<div>", "Hello", "</div>", LineBreak, "<div>", "World", "</div>">>,
     <<"<p class>", "Hello", "</p>">>,
     StyleBlock \o <<"<div>", "Hi", "&nbsp;", "there", "</div>">>,
     <<"<p>", "Hello", LineBreak, "World", "</p>">>}

\* Every short text over the tokens.
Tokens == {"<p>", "</p>", "<b>", "Hello", " ", LineBreak, "&nbsp;", ZeroWidth}
ShortTexts == UNION {[1..n -> Tokens] : n \in 0..MaxTokens}

Descriptions ==
    {StyledParagraphs(texts) : texts \in ParagraphLists}
    \cup UnmarkedTexts \cup ShortTexts

InitText ==
    /\ pc = "awaiting"
    /\ requests = 1
    /\ now = NaN
    /\ events = <<>>
    /\ clock = At(3, 9, 0, 0, 0)
    /\ \/ /\ query \in LangQueries
          /\ \E title \in LocaleMaps(TitleIn), description \in LocaleMaps(TextIn) :
                response = TextRecord(title, description)
       \/ /\ query = Key("fr")
          /\ \E text \in Descriptions :
                response = TextRecord(TitleIn, [fr |-> text])
    /\ params = paramsOf(query, clock)
    /\ currentIndex = initialIndex(query)

SpecText == InitText /\ [][ReceiveResponse]_vars

----------------------------------------------------------------------------
(* Description sanitizer *)

\* The French description of the record, which the page loaded with lang=fr reads.
FrenchText == TheRecord.description["fr"]
ReadsFrench == Mapped /\ Requested = "fr" /\ Has(TheRecord.description, "fr")

\* The paragraph texts with a blank line between each two.
RECURSIVE WithBlankLines(_)
WithBlankLines(texts) ==
    IF Len(texts) = 1 THEN texts[1]
    ELSE texts[1] \o <<"\n\n">> \o WithBlankLines(Tail(texts))

\* C12: a description made of a style block followed by k >= 2 paragraphs
\* yields the paragraph texts in order with a blank line between them.
C12_ParagraphBreaks ==
    ReadsFrench =>
        \A texts \in ParagraphLists :
            Len(texts) >= 2 /\ FrenchText = StyledParagraphs(texts)
                => TheEvent.description = WithBlankLines(texts)

\* No <p> token with a </p> token after it.
NoParagraphElement(text) ==
    ~\E i, j \in 1..Len(text) : i < j /\ text[i] = "<p>" /\ text[j] = "</p>"

\* The text with all tags stripped, trimmed and collapsed, and then lines
\* 281 and 284 applied to it.
TagsStripped(text) ==
    replaceToken(replaceToken(collapseSpaces(trim(stripTags(text))),
                              ZeroWidth, "<br/><br/>"), "&nbsp;", " ")

\* C13: when the description has, after the style removal, no <p>...</p>
\* element, the result is the text with all tags stripped, so a text with
\* words in it yields a non-empty description.
C13_FallbackStripsTags ==
    ReadsFrench /\ NoParagraphElement(removeStyle(FrenchText, 1))
        => TheEvent.description = TagsStripped(removeStyle(FrenchText, 1))

----------------------------------------------------------------------------
(* The carousel while the fetch is in flight and after it (SpecCarousel) *)

\* The records the API answers with: two with an image, one without.
CarouselRecords ==
    {Record(<<Evening(10)>>, <<Picture(RelativeUrl)>>),
     Record(<<Evening(11)>>, <<Picture(AbsoluteUrl)>>),
     Record(<<Evening(9)>>, <<>>)}

CarouselBatches ==
    UNION {{[i \in 1..n |-> ("id" :> i) @@ batch[i]] : batch \in [1..n -> CarouselRecords]}
              : n \in 0..MaxRecords}

\* The page loaded without currentIndex, with an empty one and with 0, 2, 5.
CarouselQueries ==
    {("api-key" :> "secret")}
    \cup {("api-key" :> "secret") @@ ("currentIndex" :> index) :
             index \in {"", "00", "02", "05"}}

\* setup has run: fetchEchoData stands at its await, the timer and the key
\* handler are about to be registered.
InitCarousel ==
    /\ pc = "awaiting"
    /\ requests = 1
    /\ now = NaN
    /\ events = <<>>
    /\ clock = At(3, 9, 0, 0, 0)
    /\ query \in CarouselQueries
    /\ response \in CarouselBatches
    /\ params = paramsOf(query, clock)
    /\ currentIndex = initialIndex(query)

NextCarousel == ReceiveResponse \/ TimerTick \/ KeyDown

SpecCarousel == InitCarousel /\ [][NextCarousel]_vars

\* C14: whatever the order of timer ticks, key presses and the arrival of
\* the events, once the list is non-empty currentIndex is an integer and
\* currentEvent is one of the events of the list, never null.
C14_IndexValid ==
    events # <<>> =>
        /\ currentIndex # NaN
        /\ currentIndex \in Nat
        /\ currentEvent # NullEvent
        /\ \E i \in 1..Len(events) : currentEvent = events[i]

----------------------------------------------------------------------------
(* The timeRange shortcuts (SpecTimeRange) *)

Shortcuts == {"today", "tomorrow", "weekend", "week", "next-week", "month"}

\* timeRange as the page gets it: a shortcut, a shortcut in brackets, a
\* word that is no shortcut, the empty string.
TimeRanges ==
    {<<shortcut>> : shortcut \in Shortcuts}
    \cup {<<"[", shortcut, "]">> : shortcut \in {"week", "next-week"}}
    \cup {<<"year">>, <<>>}

Categories == <<"[", "music", ",", " ", "theatre", "]">>

TimeRangeQueries ==
    {("api-key" :> "secret") @@ ("timeRange" :> timeRange) : timeRange \in TimeRanges}
    \cup {("api-key" :> "secret") @@ ("timeRange" :> <<"month">>)
             @@ ("category" :> Categories) @@ ("lang" :> "de"),
          ("api-key" :> "secret") @@ ("category" :> <<"music">>)}

\* Sunday 22 June to Monday 30 June 2025, at midnight, in the morning and
\* in the last millisecond of the day.
TimeRangeDays == 0..8
TimesOfDay == {At(0, 0, 0, 0, 0), At(0, 9, 30, 15, 250), At(0, 23, 59, 59, 999)}
TimeRangeClocks == {At(d, 0, 0, 0, 0) + time : d \in TimeRangeDays, time \in TimesOfDay}

InitTimeRange ==
    /\ pc = "start"
    /\ query \in TimeRangeQueries
    /\ clock \in TimeRangeClocks
    /\ requests = 0
    /\ response = <<>>
    /\ now = NaN
    /\ events = <<>>
    /\ params = <<>>
    /\ currentIndex = initialIndex(query)

SpecTimeRange == InitTimeRange /\ [][FetchEchoData]_vars

\* The request was built for a shortcut.
ShortcutRequested ==
    /\ pc = "awaiting"
    /\ Has(query, "timeRange")
    /\ \E shortcut \in Shortcuts : cleanTimeRange(query["timeRange"]) = <<shortcut>>
DateFrom == params["date[from]"][1]
DateTo == params["date[to]"][1]

\* The instant of a timestamp of the request, and the timestamp of a local
\* time of day d.
InstantOf(stamp) == At(stamp.d, stamp.h, stamp.mi, stamp.s, 0) + TimezoneOffset
StampOf(d, h, mi, s) == splitDot0Z(toISOString(At(d, h, mi, s, 0)))
ClockDay == clock \div MsPerDay

\* C15: for every shortcut and every current date, date[from] is not later
\* than date[to]; for next-week, from is 00:00:00 of the day 7 days after
\* today and to is 23:59:59 of the day 6 days after from.
C15_WellFormedInterval ==
    ShortcutRequested =>
        /\ InstantOf(DateFrom) <= InstantOf(DateTo)
        /\ cleanTimeRange(query["timeRange"]) = <<"next-week">> =>
              /\ DateFrom = StampOf(ClockDay + 7, 0, 0, 0)
              /\ DateTo = StampOf(ClockDay + 13, 23, 59, 59)

====
